---- MODULE Spec2Model ----
(***************************************************************************)
(* A state-machine model of repatcher_osc.py: the Scaler, the             *)
(* RepatcherReader (marker seek, frame read, input flush, knob and         *)
(* patch-bay decode) and the OscSender it reports to, together with the    *)
(* serial transport the reader drives.                                     *)
(*                                                                         *)
(* Bytes are integers 0..255 and a bytes object is a sequence of them.     *)
(* Python indexes from 0 and TLA+ from 1: buffer[i] of the source is       *)
(* buffer[i + 1] here.  A float is modelled by the exact rational it       *)
(* holds, as a record [num, den] in lowest terms with den > 0; every float *)
(* operation the model is run on is exact (divisions by powers of two of   *)
(* integers below 2^53), so the rational is the float's value.             *)
(***************************************************************************)
EXTENDS Integers, Sequences, FiniteSets, TLC

VARIABLES
  stream,    \* every byte the device will ever send, in order
  sent,      \* how many bytes of stream have reached the port's input queue
  head,      \* how many bytes of stream were read or discarded by the reader
  linkUp,    \* FALSE once the device is gone: reads then return what is queued
  ser,       \* self.ser: "unopened", "open" or "failed"
  pc,        \* position of the process in main() / RepatcherReader.read()
  exitCode,  \* -1 while the process runs, else its exit status
  exc,       \* the uncaught exception that ended the process, or "none"
  scaler,    \* the Scaler instance under use (NoScaler before construction)
  buffer,    \* the local `buffer` of read()
  i,         \* the loop variable of _read_knobs / _read_patch_bay
  got,       \* number of bytes the last ser.read() returned (-1: none yet)
  sink,      \* calls made on the sender, in order
  udp,       \* OSC messages handed to UDPClient.send, in order
  frames,    \* history: every buffer read() obtained after a marker
  framePos,  \* history: for each of them, the stream offset of its first byte
  flushes,   \* history: number of flushInput() calls
  cuts,      \* history: for each of them, the stream offset it discarded up to
  call       \* the last call of a Scaler made outside the reader (NoCall: none)

vars == <<stream, sent, head, linkUp, ser, pc, exitCode, exc, scaler, buffer,
          i, got, sink, udp, frames, framePos, flushes, cuts, call>>

transportVars == <<stream, sent, head, linkUp>>

-----------------------------------------------------------------------------
(* Bounds of the model *)

\* longest run of stray bytes in front of the first marker
MaxStray == 2
\* most frames a device stream holds
MaxFrames == 2
\* frames in a device stream under SpecAmbig and SpecClean
LongFrames == 3
\* largest start of a range, and largest sample, handed to a Scaler under
\* SpecScaler
MaxBeg == 2
\* largest raw word handed to the reader's scaler under SpecKnobScale
MaxWord == 1040

-----------------------------------------------------------------------------
(* Arithmetic helpers: Python int and float operations *)

Min(a, b) == IF a <= b THEN a ELSE b

Abs(a) == IF a < 0 THEN -a ELSE a

\* Euclid's algorithm; each step's pair is computed once and bound as p
RECURSIVE Gcd(_, _)
Gcd(a, b) ==
  IF b = 0 THEN a
  ELSE CHOOSE g \in {Gcd(p[1], p[2]) : p \in {<<b, a % b>>}} : TRUE

\* the float n / d (d # 0), as a rational in lowest terms; n and d are
\* computed once and bound as p
Rat(n, d) ==
  LET Reduced(p) ==
        LET g == Gcd(Abs(p[1]), Abs(p[2]))
            s == IF p[2] < 0 THEN -1 ELSE 1
        IN  [num |-> (s * p[1]) \div g, den |-> (s * p[2]) \div g]
  IN  CHOOSE r \in {Reduced(p) : p \in {<<n, d>>}} : TRUE

RatMul(r, k) == Rat(r.num * k, r.den)

RatAdd(r, k) == Rat(r.num + k * r.den, r.den)

RatLess(r, q) == r.num * q.den < q.num * r.den

\* a & b on non-negative ints
RECURSIVE BitAnd(_, _)
BitAnd(a, b) ==
  IF a = 0 \/ b = 0 THEN 0
  ELSE 2 * BitAnd(a \div 2, b \div 2) + (IF a % 2 = 1 /\ b % 2 = 1 THEN 1 ELSE 0)

\* a | b on non-negative ints
RECURSIVE BitOr(_, _)
BitOr(a, b) ==
  IF a = 0 THEN b
  ELSE IF b = 0 THEN a
  ELSE 2 * BitOr(a \div 2, b \div 2) + (IF a % 2 = 1 \/ b % 2 = 1 THEN 1 ELSE 0)

\* a << n (Python ints do not overflow)
ShiftLeft(a, n) == a * 2^n

\* str(n) for n in 0..9
Str(n) == <<"0", "1", "2", "3", "4", "5", "6", "7", "8", "9">>[n + 1]

-----------------------------------------------------------------------------
(* Scaler *)

NoScaler == [srcBeg |-> 0, dstBeg |-> 0, srcRng |-> 0, dstRng |-> 0, made |-> FALSE]

Zero == [num |-> 0, den |-> 1]

NoCall == [called |-> FALSE, arg |-> 0, raised |-> FALSE, out |-> Zero]

\* Scaler.__init__(src, dst)
ScalerInit(src, dst) ==
  [srcBeg |-> src[1], dstBeg |-> dst[1],
   srcRng |-> src[2] - src[1], dstRng |-> dst[2] - dst[1], made |-> TRUE]

\* Scaler.__call__ raises ZeroDivisionError exactly when srcRng is 0
ScalerRaises(s) == s.srcRng = 0

\* the two ranges used the wrong way round
ScalerCallSwapped(s, val) ==
  RatAdd(RatMul(Rat(val - s.srcBeg, s.dstRng), s.srcRng), s.dstBeg)

\* Scaler.__call__(val), when it does not raise
ScalerCall(s, val) ==
  RatAdd(RatMul(Rat(val - s.srcBeg, s.srcRng), s.dstRng), s.dstBeg)

-----------------------------------------------------------------------------
(* The serial port, as the reader uses it *)

MESSAGE_BUFFER_START == <<192>>

BUFFER_LEN == 18

\* bytes queued in the port's input buffer
Queued == sent - head

\* a read that waits for one byte more than it was asked for
CanReadOneMore(n) == Queued > n \/ ~linkUp

\* ser.read(n) blocks until n bytes are queued, unless the link is down
CanRead(n) == Queued >= n \/ ~linkUp

\* a read that ends in front of a marker value found past its first byte
SerialReadStopAtMarker(n) ==
  LET data == SubSeq(stream, head + 1, head + Min(n, Queued))
      hits == {j \in 2..Len(data) : data[j] = 192}
  IN  IF hits = {} THEN data
      ELSE SubSeq(data, 1, (CHOOSE j \in hits : \A h \in hits : j <= h) - 1)

\* the bytes ser.read(n) returns
SerialRead(n) == SubSeq(stream, head + 1, head + Min(n, Queued))

-----------------------------------------------------------------------------
(* OscSender *)

\* OscSender.send_knob(knob_num, knob_val): one message, one argument
OscKnobMessage(knob_num, knob_val) ==
  [address |-> "/repatcher/knob" \o Str(knob_num), args |-> <<knob_val>>]

\* the arguments added in reverse order
OscBayMessageReversed(output_num, values) ==
  [address |-> "/repatcher/output" \o Str(output_num),
   args |-> [m \in 1..Len(values) |-> values[Len(values) + 1 - m]]]

\* OscSender.send_patch_bay(output_num, values): one message, the values in order
OscBayMessage(output_num, values) ==
  [address |-> "/repatcher/output" \o Str(output_num), args |-> values]

-----------------------------------------------------------------------------
(* RepatcherReader *)

\* the IOError is printed and swallowed: main() goes on to reader.read()
ConstructSwallow ==
  /\ pc = "main"
  /\ scaler' = ScalerInit(<<0, 1024>>, <<0, 1>>)
  /\ \E opened \in BOOLEAN :
       ser' = IF opened THEN "open" ELSE "failed"
  /\ pc' = "seek"
  /\ UNCHANGED <<transportVars, exitCode, exc, buffer, i, got, sink, udp,
                 frames, framePos, flushes, cuts, call>>

\* main(): OscSender(...), then RepatcherReader.__init__: the Scaler is built,
\* the port is opened; an IOError is printed and the process exits.
Construct ==
  /\ pc = "main"
  /\ scaler' = ScalerInit(<<0, 1024>>, <<0, 1>>)
  /\ \E opened \in BOOLEAN :
       IF opened
         THEN /\ ser' = "open"
              /\ pc' = "seek"
              /\ UNCHANGED exitCode
         ELSE /\ ser' = "failed"
              /\ pc' = "exited"
              /\ exitCode' = 1
  /\ UNCHANGED <<transportVars, exc, buffer, i, got, sink, udp, frames,
                 framePos, flushes, cuts, call>>

\* any byte read taken for a frame start
IsMarkerAnyByte(byte) == Len(byte) = 1

\* a bytes object compared with an int: never equal
IsMarkerIntCompare(byte) == FALSE

\* byte == self.MESSAGE_BUFFER_START
IsMarker(byte) == byte = MESSAGE_BUFFER_START

\* flushInput() called on every pass of the loop, not only after a frame
ReadMarkerFlushing ==
  /\ pc = "seek"
  /\ CanRead(1)
  /\ LET byte == SerialRead(1) IN
       /\ got' = Len(byte)
       /\ pc' = IF IsMarker(byte) THEN "body" ELSE "seek"
       /\ head' = IF IsMarker(byte) THEN head + Len(byte) ELSE sent
       /\ flushes' = IF IsMarker(byte) THEN flushes ELSE flushes + 1
       /\ cuts' = IF IsMarker(byte) THEN cuts ELSE Append(cuts, sent)
  /\ UNCHANGED <<stream, sent, linkUp, ser, exitCode, exc, scaler, buffer, i,
                 sink, udp, frames, framePos, call>>

\* read(): byte = self.ser.read(1) and the test on it
ReadMarker ==
  /\ pc = "seek"
  /\ CanRead(1)
  /\ LET byte == SerialRead(1) IN
       /\ head' = head + Len(byte)
       /\ got' = Len(byte)
       /\ pc' = IF IsMarker(byte) THEN "body" ELSE "seek"
  /\ UNCHANGED <<stream, sent, linkUp, ser, exitCode, exc, scaler, buffer, i,
                 sink, udp, frames, framePos, flushes, cuts, call>>

\* read(): buffer = bytearray(self.ser.read(self.BUFFER_LEN))
ReadBody ==
  /\ pc = "body"
  /\ CanRead(BUFFER_LEN)
  /\ LET data == SerialRead(BUFFER_LEN) IN
       /\ buffer' = data
       /\ head' = head + Len(data)
       /\ got' = Len(data)
       /\ frames' = Append(frames, data)
       /\ framePos' = Append(framePos, head)
  /\ pc' = "flush"
  /\ UNCHANGED <<stream, sent, linkUp, ser, exitCode, exc, scaler, i, sink,
                 udp, flushes, cuts, call>>

\* read(): self.ser.flushInput() drops whatever is queued
FlushInput ==
  /\ pc = "flush"
  /\ head' = sent
  /\ flushes' = flushes + 1
  /\ cuts' = Append(cuts, sent)
  /\ pc' = "knobs"
  /\ i' = 0
  /\ UNCHANGED <<stream, sent, linkUp, ser, exitCode, exc, scaler, buffer,
                 got, sink, udp, frames, framePos, call>>

\* an uncaught exception ends the process with a traceback and status 1
Raise(e) ==
  /\ exc' = e
  /\ pc' = "crashed"
  /\ exitCode' = 1

\* knobs numbered in byte order
KnobNumForward(k) == k \div 2

\* knob_num = int(5 - (i / 2)); i is even, so the float division is exact
KnobNum(k) == 5 - (k \div 2)

\* the two bytes added, not or-ed
RawValAdd(buf, k) == ShiftLeft(buf[k + 2], 7) + buf[k + 1]

\* the word reported as its change since the frame before
RawValDelta(buf, k) ==
  LET word(b) == BitOr(ShiftLeft(b[k + 2], 7), b[k + 1])
  IN  IF Len(frames) > 1 /\ Len(frames[Len(frames) - 1]) = Len(buf)
        THEN word(buf) - word(frames[Len(frames) - 1])
        ELSE word(buf)

\* range(0, 12, 2)
KnobRange == {0, 2, 4, 6, 8, 10}

\* range(12, 17): the last row left out
BayRangeShort == 12..16

\* range(12, 18)
BayRange == 12..17

\* raw_val = (buffer[i+1] << 7) | buffer[i]
RawVal(buf, k) == BitOr(ShiftLeft(buf[k + 2], 7), buf[k + 1])

\* one iteration of the loop of _read_knobs (for i in range(0, 12, 2))
KnobStep ==
  /\ pc = "knobs"
  /\ IF i + 1 >= Len(buffer)
       THEN /\ Raise("IndexError")
            /\ UNCHANGED <<i, sink, udp>>
       ELSE IF ScalerRaises(scaler)
       THEN /\ Raise("ZeroDivisionError")
            /\ UNCHANGED <<i, sink, udp>>
       ELSE LET knob_num == KnobNum(i)
                knob_val == ScalerCall(scaler, RawVal(buffer, i))
            IN  /\ sink' = Append(sink, [op |-> "send_knob", id |-> knob_num,
                                         val |-> knob_val])
                /\ udp' = Append(udp, OscKnobMessage(knob_num, knob_val))
                /\ i' = IF i + 2 \in KnobRange THEN i + 2 ELSE 12
                /\ pc' = IF i + 2 \in KnobRange THEN "knobs" ELSE "bay"
                /\ UNCHANGED <<exc, exitCode>>
  /\ UNCHANGED <<transportVars, ser, scaler, buffer, got, frames, framePos,
                 flushes, cuts, call>>

\* out_pin = int(5 - (i - 12))
OutPin(k) == 5 - (k - 12)

Masks == <<32, 16, 8, 4, 2, 1>>

\* the masks taken from bit 0 up
BayValuesLsbFirst(byte) ==
  [m \in 1..6 |-> IF BitAnd(byte, Masks[7 - m]) = Masks[7 - m] THEN 1 ELSE 0]

\* the masked bits themselves, not 0 or 1
BayValuesMasked(byte) == [m \in 1..6 |-> BitAnd(byte, Masks[m])]

\* values = [1 if (buffer[i] & j) == j else 0 for j in [32, 16, 8, 4, 2, 1]]
BayValues(byte) ==
  [m \in 1..6 |-> IF BitAnd(byte, Masks[m]) = Masks[m] THEN 1 ELSE 0]

\* one iteration of the loop of _read_patch_bay (for i in range(12, 18))
BayStep ==
  /\ pc = "bay"
  /\ IF i >= Len(buffer)
       THEN /\ Raise("IndexError")
            /\ UNCHANGED <<i, sink, udp>>
       ELSE LET out_pin == OutPin(i)
                values == BayValues(buffer[i + 1])
            IN  /\ sink' = Append(sink, [op |-> "send_patch_bay",
                                         id |-> out_pin, val |-> values])
                /\ udp' = Append(udp, OscBayMessage(out_pin, values))
                /\ i' = i + 1
                /\ pc' = IF i + 1 \in BayRange THEN "bay" ELSE "seek"
                /\ UNCHANGED <<exc, exitCode>>
  /\ UNCHANGED <<transportVars, ser, scaler, buffer, got, frames, framePos,
                 flushes, cuts, call>>

-----------------------------------------------------------------------------
(* The device at the other end of the port *)

\* one more byte of the stream reaches the input queue
Arrive ==
  /\ ser = "open"
  /\ linkUp
  /\ sent < Len(stream)
  /\ sent' = sent + 1
  /\ UNCHANGED <<stream, head, linkUp, ser, pc, exitCode, exc, scaler, buffer,
                 i, got, sink, udp, frames, framePos, flushes, cuts, call>>

\* the device goes away: nothing more arrives, pending reads return short
Disconnect ==
  /\ ser = "open"
  /\ linkUp
  /\ linkUp' = FALSE
  /\ UNCHANGED <<stream, sent, head, ser, pc, exitCode, exc, scaler, buffer,
                 i, got, sink, udp, frames, framePos, flushes, cuts, call>>

-----------------------------------------------------------------------------
(* Device streams *)

Marker == MESSAGE_BUFFER_START[1]

\* frame bodies, every position distinct: one of 7-bit bytes, one with the
\* marker value inside the body
BodySeq == [k \in 1..BUFFER_LEN |-> k]
BodyMark == [k \in 1..BUFFER_LEN |-> IF k \in {4, 15} THEN Marker ELSE 100 + k]

Bodies == {BodySeq, BodyMark}

\* one run of strays per length, the two stray values alternating
Strays ==
  {[k \in 1..n |-> IF k % 2 = 1 THEN 255 ELSE 0] : n \in 0..MaxStray}

RECURSIVE FrameRuns(_)
FrameRuns(n) ==
  IF n = 0 THEN {<<>>}
  ELSE {<<Marker>> \o b \o r : b \in Bodies, r \in FrameRuns(n - 1)}

Streams ==
  {s \o r : s \in Strays, r \in UNION {FrameRuns(n) : n \in 1..MaxFrames}}

-----------------------------------------------------------------------------
(* The whole program against a device *)

\* the process at its start: nothing opened, nothing read, nothing sent
InitProcess ==
  /\ sent = 0
  /\ head = 0
  /\ linkUp = TRUE
  /\ ser = "unopened"
  /\ pc = "main"
  /\ exitCode = -1
  /\ exc = "none"
  /\ scaler = NoScaler
  /\ buffer = <<>>
  /\ i = 0
  /\ got = -1
  /\ sink = <<>>
  /\ udp = <<>>
  /\ frames = <<>>
  /\ framePos = <<>>
  /\ flushes = 0
  /\ cuts = <<>>
  /\ call = NoCall

Init ==
  /\ stream \in Streams
  /\ InitProcess

Next ==
  \/ Construct
  \/ ReadMarker
  \/ ReadBody
  \/ FlushInput
  \/ KnobStep
  \/ BayStep
  \/ Arrive
  \/ Disconnect

Spec == Init /\ [][Next]_vars

-----------------------------------------------------------------------------
(* The whole program against longer runs of well-formed frames *)

\* a second body of 7-bit bytes, every position distinct
BodyLow == [k \in 1..BUFFER_LEN |-> 64 + k]

\* n well-formed frames whose bodies are first, second, first, ...
RECURSIVE AltRun(_, _, _)
AltRun(first, second, n) ==
  IF n = 0 THEN <<>>
  ELSE <<Marker>> \o first \o AltRun(second, first, n - 1)

\* frames with the marker value in every body, or in every other body
AmbigStreams ==
  {AltRun(BodySeq, BodyMark, LongFrames),
   AltRun(BodyMark, BodySeq, LongFrames),
   AltRun(BodyMark, BodyMark, LongFrames)}

\* frames of 7-bit body bytes, neighbouring frames different
CleanStreams ==
  {AltRun(BodySeq, BodyLow, LongFrames),
   AltRun(BodyLow, BodySeq, LongFrames)}

\* the device sends LongFrames frames, some with the marker value in the body
InitAmbig ==
  /\ stream \in AmbigStreams
  /\ InitProcess

SpecAmbig == InitAmbig /\ [][Next]_vars

\* the device sends LongFrames frames of 7-bit body bytes
InitClean ==
  /\ stream \in CleanStreams
  /\ InitProcess

SpecClean == InitClean /\ [][Next]_vars

\* the next statement of the one sequential process
ProcessStep ==
  \/ Construct
  \/ ReadMarker
  \/ ReadBody
  \/ FlushInput
  \/ KnobStep
  \/ BayStep

\* the device keeps sending and never goes away
NextLive ==
  \/ ProcessStep
  \/ Arrive

\* the device sends LongFrames frames, every other one with the marker value
\* in its body
InitLive ==
  /\ stream = AltRun(BodySeq, BodyMark, LongFrames)
  /\ InitProcess

\* the process runs whenever it is not blocked in a read, and the device
\* sends every byte of its stream
SpecLive ==
  /\ InitLive
  /\ [][NextLive]_vars
  /\ WF_vars(ProcessStep)
  /\ WF_vars(Arrive)

-----------------------------------------------------------------------------
(* The Scaler class on its own *)

\* range widths: zero, and powers of two (which keep the float division exact)
Widths == {-2, -1, 0, 1, 2, 4}

Ranges == {<<a, a + w>> : a \in 0..MaxBeg, w \in Widths}

\* Scaler(src, dst): the constructor stores four numbers and cannot fail
ScalerNew ==
  /\ pc = "unit"
  /\ \E src \in Ranges, dst \in Ranges : scaler' = ScalerInit(src, dst)
  /\ call' = NoCall
  /\ UNCHANGED <<transportVars, ser, pc, exitCode, exc, buffer, i, got, sink,
                 udp, frames, framePos, flushes, cuts>>

\* scaler(val) for a val of vals
ScalerApply(vals) ==
  /\ pc = "unit"
  /\ scaler.made
  /\ \E val \in vals :
       call' = IF ScalerRaises(scaler)
                 THEN [called |-> TRUE, arg |-> val, raised |-> TRUE, out |-> Zero]
                 ELSE [called |-> TRUE, arg |-> val, raised |-> FALSE,
                       out |-> ScalerCall(scaler, val)]
  /\ UNCHANGED <<transportVars, ser, pc, exitCode, exc, scaler, buffer, i, got,
                 sink, udp, frames, framePos, flushes, cuts>>

ScalerApplySample == ScalerApply(0..MaxBeg)

ScalerApplyWord == ScalerApply(0..MaxWord)

\* no process, no port: only Scaler objects
InitUnit ==
  /\ stream = <<>>
  /\ sent = 0
  /\ head = 0
  /\ linkUp = TRUE
  /\ ser = "unopened"
  /\ pc = "unit"
  /\ exitCode = -1
  /\ exc = "none"
  /\ buffer = <<>>
  /\ i = 0
  /\ got = -1
  /\ sink = <<>>
  /\ udp = <<>>
  /\ frames = <<>>
  /\ framePos = <<>>
  /\ flushes = 0
  /\ cuts = <<>>
  /\ call = NoCall

InitScaler ==
  /\ InitUnit
  /\ scaler = NoScaler

NextScaler ==
  \/ ScalerNew
  \/ ScalerApplySample

SpecScaler == InitScaler /\ [][NextScaler]_vars

\* the scaler RepatcherReader.__init__ builds, called on raw words
InitKnobScale ==
  /\ InitUnit
  /\ scaler = ScalerInit(<<0, 1024>>, <<0, 1>>)

NextKnobScale == ScalerApplyWord

SpecKnobScale == InitKnobScale /\ [][NextKnobScale]_vars

-----------------------------------------------------------------------------
(* The reader on one queued frame, over a wide family of frames *)

LoBytes == 0..255

HiBytes == {0, 1, 2, 7, 8, 9, 127, 128, 255}

\* one knob pair free, every other position distinct
KnobFrames ==
  {[BodySeq EXCEPT ![2 * k + 1] = lo, ![2 * k + 2] = hi] :
     k \in 0..5, lo \in LoBytes, hi \in HiBytes}

\* one row byte free, every other position distinct
RowFrames ==
  {[BodySeq EXCEPT ![13 + m] = r] : m \in 0..5, r \in 0..255}

DecodeFrames == KnobFrames \cup RowFrames

\* the reader is constructed, the port is open, one marker and frame are queued
InitDecode ==
  /\ \E f \in DecodeFrames : stream = <<Marker>> \o f
  /\ sent = Len(stream)
  /\ head = 0
  /\ linkUp = TRUE
  /\ ser = "open"
  /\ pc = "seek"
  /\ exitCode = -1
  /\ exc = "none"
  /\ scaler = ScalerInit(<<0, 1024>>, <<0, 1>>)
  /\ buffer = <<>>
  /\ i = 0
  /\ got = -1
  /\ sink = <<>>
  /\ udp = <<>>
  /\ frames = <<>>
  /\ framePos = <<>>
  /\ flushes = 0
  /\ cuts = <<>>
  /\ call = NoCall

NextDecode ==
  \/ ReadMarker
  \/ ReadBody
  \/ FlushInput
  \/ KnobStep
  \/ BayStep

SpecDecode == InitDecode /\ [][NextDecode]_vars

-----------------------------------------------------------------------------
(* Properties *)

\* the sink calls of one frame, in the order the contract fixes
ExpectedOrder ==
  <<<<"send_knob", 5>>, <<"send_knob", 4>>, <<"send_knob", 3>>,
    <<"send_knob", 2>>, <<"send_knob", 1>>, <<"send_knob", 0>>,
    <<"send_patch_bay", 5>>, <<"send_patch_bay", 4>>, <<"send_patch_bay", 3>>,
    <<"send_patch_bay", 2>>, <<"send_patch_bay", 1>>, <<"send_patch_bay", 0>>>>

CallsPerFrame == Len(ExpectedOrder)

\* frame k was read in full
FullFrame(k) == Len(frames[k]) = BUFFER_LEN

\* the reader has left the decode of frame k behind
Dispatched(k) == k < Len(frames) \/ pc \in {"seek", "body"}

\* position in sink of the first call of frame k, minus one
Base(k) == CallsPerFrame * (k - 1)

\* C1: every frame the reader decodes gets exactly 12 sink calls, send_knob
\* for knobs 5,4,3,2,1,0 then send_patch_bay for outputs 5,4,3,2,1,0: while
\* a frame is being decoded the calls made for it are a prefix of that
\* order, and once it is dispatched all 12 are there and no more.
C1_TwelveCallsInOrder ==
  \A k \in 1..Len(frames) :
    FullFrame(k) =>
      /\ Len(sink) >= Base(k)
      /\ \A j \in 1..CallsPerFrame :
           Base(k) + j <= Len(sink) =>
             <<sink[Base(k) + j].op, sink[Base(k) + j].id>> = ExpectedOrder[j]
      /\ Dispatched(k) => Len(sink) >= Base(k) + CallsPerFrame
      /\ k = Len(frames) => Len(sink) <= Base(k) + CallsPerFrame

C1_Witness ==
  /\ Len(frames) = 2
  /\ pc = "seek"
  /\ Len(sink) = 24
  /\ sink[13].op = "send_knob" /\ sink[13].id = 5
  /\ sink[24].op = "send_patch_bay" /\ sink[24].id = 0

\* index in stream of the first marker byte (every device stream has one)
FirstMarker ==
  CHOOSE m \in 1..Len(stream) :
    /\ stream[m] = 192
    /\ \A n \in 1..(m - 1) : stream[n] # 192

\* C2: the bytes in front of the first 0xC0 cause no sink call, and when the
\* 18 bytes after that 0xC0 reach the port the first frame decoded is those
\* 18 bytes, body byte k at frame index k.
C2_MarkerResync ==
  /\ Len(frames) = 0 => sink = <<>>
  /\ Len(frames) >= 1 =>
       /\ framePos[1] = FirstMarker
       /\ sent >= FirstMarker + BUFFER_LEN =>
            /\ Len(frames[1]) = BUFFER_LEN
            /\ \A k \in 1..BUFFER_LEN : frames[1][k] = stream[FirstMarker + k]

C2_Witness ==
  /\ stream[1] # 192
  /\ stream[2] # 192
  /\ Len(frames) = 1
  /\ frames[1] = BodySeq
  /\ Len(sink) = 12

\* (hi << 7) | lo for bytes, by arithmetic: bit 7 of lo and bit 0 of hi
\* share a position
WordOf(lo, hi) == 128 * hi + lo - (IF lo >= 128 /\ hi % 2 = 1 THEN 128 ELSE 0)

\* C3: for every 18-byte frame and every even offset i in 0..10, the call
\* for that pair is send_knob with knob_id = 5 - i/2 and carries scale of
\* (frame[i+1] << 7) | frame[i]; offset 0 is knob 5, offset 10 is knob 0.
C3_KnobDecode ==
  \A k \in 1..Len(frames) :
    FullFrame(k) =>
      \A j \in 0..5 :
        Base(k) + j + 1 <= Len(sink) =>
          LET c == sink[Base(k) + j + 1]
              w == WordOf(frames[k][2 * j + 1], frames[k][2 * j + 2])
          IN  /\ c.op = "send_knob"
              /\ c.id = 5 - j
              /\ c.val = ScalerCall(scaler, w)
              /\ c.val.den > 0
              /\ c.val.num * 1024 = w * c.val.den

C3_Witness ==
  /\ Len(frames) = 1
  /\ Len(sink) = 12
  /\ frames[1][1] = 255 /\ frames[1][2] = 255
  /\ frames[1][11] = 11 /\ frames[1][12] = 12
  /\ sink[1].id = 5 /\ sink[1].val = [num |-> 32767, den |-> 1024]
  /\ sink[6].id = 0 /\ sink[6].val = [num |-> 1547, den |-> 1024]

\* bit n of a byte
BitOf(byte, n) == (byte \div 2^n) % 2

\* C4: for every 18-byte frame and every offset i in 12..17, the call for
\* that row is send_patch_bay with output_id = 5 - (i - 12) and six flags,
\* flag m being bit (5 - m) of frame[i]; 32 gives [1,0,0,0,0,0], 1 gives
\* [0,0,0,0,0,1], 63 gives all ones, and bits 6 and 7 change nothing.
C4_PatchBayDecode ==
  \A k \in 1..Len(frames) :
    FullFrame(k) =>
      \A r \in 0..5 :
        Base(k) + 6 + r + 1 <= Len(sink) =>
          LET c == sink[Base(k) + 6 + r + 1]
              byte == frames[k][12 + r + 1]
          IN  /\ c.op = "send_patch_bay"
              /\ c.id = 5 - r
              /\ Len(c.val) = 6
              /\ \A m \in 0..5 : c.val[m + 1] = BitOf(byte, 5 - m)
              /\ byte % 64 = 32 => c.val = <<1, 0, 0, 0, 0, 0>>
              /\ byte % 64 = 1 => c.val = <<0, 0, 0, 0, 0, 1>>
              /\ byte % 64 = 63 => c.val = <<1, 1, 1, 1, 1, 1>>

C4_Witness ==
  /\ Len(frames) = 1
  /\ Len(sink) = 12
  /\ frames[1][13] = 224
  /\ sink[7].id = 5 /\ sink[7].val = <<1, 0, 0, 0, 0, 0>>
  /\ sink[12].id = 0 /\ sink[12].val = BayValues(18)

\* C5: frames are processed one at a time in arrival order: whenever the
\* reader is at a marker read (or between marker and body) every frame read
\* so far has all its 12 calls in the sink, and the frames read are bodies
\* that follow a marker in the stream, each starting after the end of the
\* one before.
C5_ArrivalOrderNoOverlap ==
  /\ pc \in {"seek", "body"} => Len(sink) = CallsPerFrame * Len(frames)
  /\ \A k \in 1..Len(frames) :
       /\ framePos[k] >= 1
       /\ stream[framePos[k]] = 192
       /\ frames[k] = SubSeq(stream, framePos[k] + 1, framePos[k] + Len(frames[k]))
       /\ k > 1 => framePos[k] > framePos[k - 1] + Len(frames[k - 1])

C5_Witness ==
  /\ Len(frames) = 2
  /\ framePos[2] = framePos[1] + BUFFER_LEN + 1
  /\ frames[1] = BodyMark
  /\ frames[2] = BodySeq
  /\ pc = "bay"
  /\ Len(sink) = 20

\* C6 (as claimed): a body read that returns fewer than 18 bytes ends the
\* read loop with an error, and nothing decoded from the short buffer
\* reaches the sink.
C6_ShortBodyFatalNoDispatch ==
  \A k \in 1..Len(frames) :
    ~FullFrame(k) =>
      /\ pc \in {"flush", "knobs", "bay", "crashed"}
      /\ Len(sink) <= Base(k)

\* C7 (as claimed): no Scaler with a zero-width source range exists, its
\* construction having failed.
C7_ZeroWidthRejectedAtConstruction ==
  scaler.made => scaler.srcRng # 0

\* C8: when opening the port fails the process has exited with a non-zero
\* status inside the constructor: no byte was read, no sink call made.
C8_OpenFailureAborts ==
  ser = "failed" =>
    /\ pc = "exited"
    /\ exitCode # 0 /\ exitCode # -1
    /\ head = 0
    /\ got = -1
    /\ frames = <<>>
    /\ sink = <<>>
    /\ udp = <<>>

C8_Witness ==
  /\ ser = "failed"
  /\ pc = "exited"
  /\ exitCode = 1

\* C9: for the reader's scaler and every raw word w in 0..1024, scale(w) is
\* w/1024, scale(0) = 0, scale(1024) = 1, and a larger w gives a strictly
\* larger result.
C9_ScaleIsWordOver1024 ==
  [][/\ (call'.called /\ call'.arg \in 0..1024) =>
          /\ ~call'.raised
          /\ call'.out.den > 0
          /\ call'.out.num * 1024 = call'.arg * call'.out.den
          /\ call'.arg = 0 => call'.out = [num |-> 0, den |-> 1]
          /\ call'.arg = 1024 => call'.out = [num |-> 1, den |-> 1]
     /\ (/\ call.called /\ call'.called
         /\ call.arg \in 0..1024 /\ call'.arg \in 0..1024
         /\ call.arg < call'.arg) =>
          call.out.num * call'.out.den < call'.out.num * call.out.den
    ]_vars

C9_Witness ==
  /\ call.called
  /\ call.arg = 1024
  /\ call.out = [num |-> 1, den |-> 1]
  /\ scaler = ScalerInit(<<0, 1024>>, <<0, 1>>)

\* C10 (as claimed): every knob value that reaches the sink lies between 0
\* and 1 inclusive.
C10_KnobValueInUnitInterval ==
  \A j \in 1..Len(sink) :
    sink[j].op = "send_knob" =>
      /\ 0 <= sink[j].val.num
      /\ sink[j].val.num <= sink[j].val.den

\* C11: whatever bytes a frame holds, every send_knob call has knob_id in
\* 0..5 and every send_patch_bay call has output_id in 0..5 and exactly six
\* connection values, each 0 or 1.
C11_SinkArguments ==
  \A j \in 1..Len(sink) :
    /\ sink[j].op \in {"send_knob", "send_patch_bay"}
    /\ sink[j].id \in 0..5
    /\ sink[j].op = "send_patch_bay" =>
         /\ Len(sink[j].val) = 6
         /\ \A m \in 1..6 : sink[j].val[m] \in {0, 1}

C11_Witness ==
  /\ Len(sink) = 12
  /\ frames[1][18] = 255
  /\ sink[12].op = "send_patch_bay"
  /\ sink[12].val = <<1, 1, 1, 1, 1, 1>>
  /\ sink[1].op = "send_knob"

KnobAddress ==
  <<"/repatcher/knob0", "/repatcher/knob1", "/repatcher/knob2",
    "/repatcher/knob3", "/repatcher/knob4", "/repatcher/knob5">>

OutputAddress ==
  <<"/repatcher/output0", "/repatcher/output1", "/repatcher/output2",
    "/repatcher/output3", "/repatcher/output4", "/repatcher/output5">>

\* C12: OscSender sends one message per sink call, in the same order:
\* send_knob(N, v) gives address /repatcher/knobN with the one argument v,
\* send_patch_bay(N, values) gives /repatcher/outputN with the six values
\* in the order given.
C12_OneMessagePerCall ==
  /\ Len(udp) = Len(sink)
  /\ \A j \in 1..Len(sink) :
       IF sink[j].op = "send_knob"
         THEN /\ udp[j].address = KnobAddress[sink[j].id + 1]
              /\ udp[j].args = <<sink[j].val>>
         ELSE /\ udp[j].address = OutputAddress[sink[j].id + 1]
              /\ Len(udp[j].args) = 6
              /\ \A m \in 1..6 : udp[j].args[m] = sink[j].val[m]

C12_Witness ==
  /\ Len(udp) = 12
  /\ frames[1] = BodySeq
  /\ udp[1] = [address |-> "/repatcher/knob5",
               args |-> <<[num |-> 257, den |-> 1024]>>]
  /\ udp[12] = [address |-> "/repatcher/output0", args |-> <<0, 1, 0, 0, 1, 0>>]

\* the sink calls made so far for frame k
CallsOf(k) ==
  SubSeq(sink, Base(k) + 1, Min(Len(sink), Base(k) + CallsPerFrame))

\* C13: decoding depends on the frame alone: two 18-byte frames with the
\* same bytes, whatever was read before each, get the same sink calls with
\* the same arguments (as far as both have been dispatched).
C13_DecodeHistoryFree ==
  \A j \in 1..Len(frames) : \A k \in 1..Len(frames) :
    (j < k /\ frames[j] = frames[k] /\ FullFrame(j)) =>
      /\ Len(CallsOf(j)) = CallsPerFrame
      /\ CallsOf(k) = SubSeq(CallsOf(j), 1, Len(CallsOf(k)))

C13_Witness ==
  /\ Len(frames) = 2
  /\ frames[1] = frames[2]
  /\ frames[1] = BodyMark
  /\ Len(sink) = 24
  /\ pc = "seek"

\* C14: after a seek read that returned 0xC0 the body is the next 18 bytes
\* of the stream, taken with nothing discarded in between: the marker is the
\* byte in front of the body, not part of it, and a 0xC0 among the 18 bytes
\* is data (it neither ends the body nor starts a frame).
C14_FrameExtraction ==
  /\ [](/\ pc = "body" => (head >= 1 /\ stream[head] = 192)
        /\ \A k \in 1..Len(frames) :
             /\ framePos[k] >= 1
             /\ stream[framePos[k]] = 192
             /\ sent >= framePos[k] + BUFFER_LEN =>
                  /\ Len(frames[k]) = BUFFER_LEN
                  /\ \A n \in 1..BUFFER_LEN :
                       frames[k][n] = stream[framePos[k] + n])
  /\ [][pc = "body" =>
          \/ head' = head /\ frames' = frames
          \/ /\ pc' = "flush"
             /\ framePos' = Append(framePos, head)
             /\ head' = head + Len(buffer')
             /\ buffer' = SubSeq(stream, head + 1, head + Len(buffer'))
             /\ frames' = Append(frames, buffer')]_vars

C14_Witness ==
  /\ Len(frames) = 2
  /\ frames[1] = BodyMark
  /\ frames[1][4] = 192
  /\ framePos[2] = framePos[1] + BUFFER_LEN + 1
  /\ Len(sink) = 24

\* C15: every body read is followed by one flushInput() before the next
\* seek read, there is no flush while seeking or between marker and body,
\* and the flush leaves the bytes already read (and so the calls decoded
\* from them) untouched while emptying the input queue.
C15_StaleDataDiscard ==
  /\ [](/\ flushes = Len(frames) - (IF pc = "flush" THEN 1 ELSE 0)
        /\ pc \in {"knobs", "bay"} => buffer = frames[Len(frames)])
  /\ [][flushes' # flushes =>
          /\ pc = "flush"
          /\ pc' = "knobs"
          /\ flushes' = flushes + 1
          /\ buffer' = buffer
          /\ frames' = frames
          /\ sink' = sink
          /\ head' = sent
          /\ sent' = sent]_vars

C15_Witness ==
  /\ flushes = 2
  /\ Len(frames) = 2
  /\ framePos[2] > framePos[1] + BUFFER_LEN + 1
  /\ pc = "bay"
  /\ buffer = SubSeq(stream, framePos[2] + 1, framePos[2] + Len(buffer))

\* the device put a frame marker at stream position m
DeviceMarker(m) ==
  /\ m >= FirstMarker
  /\ (m - FirstMarker) % (BUFFER_LEN + 1) = 0

\* frame k was taken from a 0xC0 that the device sent as body data
Misaligned(k) == ~DeviceMarker(framePos[k])

\* flush n stopped inside a device frame (not at a frame boundary)
MidFrameCut(n) ==
  /\ cuts[n] >= FirstMarker
  /\ (cuts[n] + 1 - FirstMarker) % (BUFFER_LEN + 1) # 0

\* C16: a 0xC0 read while seeking always starts a frame read, marker or not:
\* a frame taken from a 0xC0 inside a device frame body is the 18 stream
\* bytes after it, gets its 12 sink calls, and the reader raises nothing and
\* goes on.
C16_AmbiguityUndetected ==
  /\ [](\A k \in 1..Len(frames) :
          (FullFrame(k) /\ Misaligned(k)) =>
            /\ stream[framePos[k]] = 192
            /\ frames[k] = SubSeq(stream, framePos[k] + 1, framePos[k] + BUFFER_LEN)
            /\ k = Len(frames) =>
                 /\ exc = "none"
                 /\ exitCode = -1
                 /\ pc \in {"flush", "knobs", "bay", "seek", "body"}
            /\ Dispatched(k) => Len(CallsOf(k)) = CallsPerFrame)
  /\ [][(pc = "seek" /\ head' = head + 1 /\ stream[head'] = 192) =>
          pc' = "body"]_vars

C16_Witness ==
  /\ Len(frames) = 2
  /\ MidFrameCut(1)
  /\ Misaligned(2)
  /\ FullFrame(2)
  /\ pc = "seek"
  /\ exc = "none"
  /\ Len(sink) = 24

\* C17 (as claimed): a seek read that returns no byte ends the read loop:
\* the reader is never at the seek read again with an empty read behind it.
C17_ShortSeekReadFatal ==
  got = 0 => pc # "seek"

\* the bytes of the device's frame bodies are all below 0x80
CleanDevice ==
  \A m \in 1..Len(stream) : (m - 1) % (BUFFER_LEN + 1) # 0 => stream[m] < 128

\* C19: when the device sends well-formed frames with every body byte below
\* 0x80, every 18-byte frame the reader decodes is the body of one device
\* frame, later frames from later device frames, wherever the discards cut.
C19_CleanDeviceStaysAligned ==
  (stream[1] = 192 /\ CleanDevice) =>
    \A k \in 1..Len(frames) :
      /\ (framePos[k] - 1) % (BUFFER_LEN + 1) = 0
      /\ frames[k] = SubSeq(stream, framePos[k] + 1, framePos[k] + Len(frames[k]))
      /\ k > 1 => framePos[k] > framePos[k - 1]

C19_Witness ==
  /\ Len(frames) = 2
  /\ MidFrameCut(1)
  /\ framePos[2] = 2 * (BUFFER_LEN + 1) + 1
  /\ frames[2] = BodyLow
  /\ pc = "seek"
  /\ Len(sink) = 24

\* C18: while the device keeps sending and every step of the process gets
\* to run, each 0xC0 read while seeking (with its 18 bytes still to come
\* from the device) leads to the 12 sink calls of its frame and back to the
\* seek read, and the process never ends by itself.
C18_NoTerminalState ==
  /\ (pc = "body" /\ Len(stream) - head >= BUFFER_LEN)
       ~> (pc = "seek" /\ Len(sink) = CallsPerFrame * Len(frames))
  /\ [](ser = "open" =>
          /\ exitCode = -1
          /\ exc = "none"
          /\ pc \in {"seek", "body", "flush", "knobs", "bay"})

C18_Witness ==
  /\ pc = "seek"
  /\ Len(frames) = 2
  /\ Len(sink) = 24
  /\ linkUp
  /\ head = Len(stream)
  /\ exitCode = -1

====
